---- MODULE Spec2Model ----
(***************************************************************************)
(* Verification model of zephyr-lang-rust:                                 *)
(*   - zephyr/src/object.rs: StaticKernelObject::init_once, the one-shot    *)
(*     initialization of statically declared kernel objects;               *)
(*   - samples/philosophers/src/lib.rs: phil_thread, the dining             *)
(*     philosophers over a ForkSync, and get_random_delay.                  *)
(***************************************************************************)
EXTENDS Integers, Naturals, FiniteSets, Sequences, TLC

(***************************************************************************)
(* Bounds of the model.                                                    *)
(***************************************************************************)
\* Number of threads that may call init_once concurrently.
MaxCallers == 3
\* Number of StaticKernelObject slots the callers choose among.
MaxSlots == 1
\* Number of init_once calls made on one slot in a run.
MaxCalls == 3
\* Width of usize in the model, in bits (the targets have 32 or 64).
USIZE_BITS == 16
\* uptime_get() values are drawn as h*100 + r for h in 0..MaxHundreds.
MaxHundreds == 33

(***************************************************************************)
(* Program constants.                                                      *)
(***************************************************************************)
KOBJ_UNINITIALIZED == 0
KOBJ_INITING == 1
KOBJ_INITIALIZED == 2
NUM_PHIL == 6
\* The period both calls of get_random_delay in phil_thread pass.
PHIL_PERIOD == 25
\* The semaphore behind each fork is binary: initial count 1, limit 1.
SEM_LIMIT == 1

Callers == 1..MaxCallers
Slots == 1..MaxSlots
Phils == 0..(NUM_PHIL - 1)
ForkIdx == 0..(NUM_PHIL - 1)

VARIABLES
    \* ---- object.rs: StaticKernelObject, one entry per slot
    init,       \* StaticKernelObject::init, the atomic state word
    value,      \* StaticKernelObject::value, the cell: "zeroed", "partial", "constructed"
    \* ---- object.rs: the callers of init_once
    kpc,        \* position of each caller inside init_once
    kslot,      \* the slot (&self) of the caller's current call
    kret,       \* what the caller's last call returned: "Some", "None" ("-" before)
    handles,    \* the slots each caller holds a wrapped handle (Self::T) to
    calls,      \* per slot, init_once calls started
    somes,      \* per slot, calls that returned Some
    nones,      \* per slot, calls that returned None
    \* ---- philosophers: phil_thread
    pc,         \* position of each philosopher in phil_thread
    forks,      \* the local `forks` pair of each philosopher
    sem,        \* per fork, the count of the semaphore behind it
    held,       \* per philosopher, the forks it has taken and not released
    \* ---- philosophers: get_random_delay
    overflow_checks, \* build profile: arithmetic overflow panics (TRUE) or wraps
    uptime,     \* the value uptime_get() returns
    dpc,        \* "idle" before the call, "returned" or "panicked" after
    did,        \* argument id
    dperiod,    \* argument period
    dret        \* the record the call computed

kvars == <<init, value, kpc, kslot, kret, handles, calls, somes, nones>>
pvars == <<pc, forks, sem, held>>
dvars == <<overflow_checks, uptime, dpc, did, dperiod, dret>>
vars == <<init, value, kpc, kslot, kret, handles, calls, somes, nones,
          pc, forks, sem, held,
          overflow_checks, uptime, dpc, did, dperiod, dret>>

(***************************************************************************)
(* object.rs: StaticKernelObject::init_once                                *)
(***************************************************************************)

\* StaticKernelObject::new / the zero-filled static: state word 0, cell zeroed.
InitKobj ==
    /\ init = [s \in Slots |-> KOBJ_UNINITIALIZED]
    /\ value = [s \in Slots |-> "zeroed"]
    /\ kpc = [t \in Callers |-> "idle"]
    /\ kslot = [t \in Callers |-> 1]
    /\ kret = [t \in Callers |-> "-"]
    /\ handles = [t \in Callers |-> {}]
    /\ calls = [s \in Slots |-> 0]
    /\ somes = [s \in Slots |-> 0]
    /\ nones = [s \in Slots |-> 0]

\* A mutant of compare_exchange: an unconditional swap.
compare_exchange_swap(current, expected, new) ==
    [ok |-> TRUE, val |-> new]

\* A mutant of compare_exchange: only a finished slot refuses the exchange.
compare_exchange_lax(current, expected, new) ==
    IF current # KOBJ_INITIALIZED
    THEN [ok |-> TRUE, val |-> new]
    ELSE [ok |-> FALSE, val |-> current]

\* AtomicUsize::compare_exchange(expected, new, AcqRel, Acquire) on a word that
\* holds `current`: Ok and the word becomes `new`, or Err and it is unchanged.
compare_exchange(current, expected, new) ==
    IF current = expected
    THEN [ok |-> TRUE, val |-> new]
    ELSE [ok |-> FALSE, val |-> current]

\* A thread calls STATIC.init_once(args) on slot s.
InitOnceCall(t, s) ==
    /\ kpc[t] = "idle"
    /\ calls[s] < MaxCalls
    /\ kpc' = [kpc EXCEPT ![t] = "cas"]
    /\ kslot' = [kslot EXCEPT ![t] = s]
    /\ calls' = [calls EXCEPT ![s] = @ + 1]
    /\ UNCHANGED <<init, value, kret, handles, somes, nones>>
    /\ UNCHANGED <<pvars, dvars>>

\* A mutant of InitOnceCas: a caller that finds the slot Initializing waits
\* for the winner to finish before it returns None.
InitOnceCasWait(t) ==
    /\ kpc[t] = "cas"
    /\ init[kslot[t]] # KOBJ_INITING
    /\ LET s == kslot[t]
           r == compare_exchange(init[s], KOBJ_UNINITIALIZED, KOBJ_INITING)
       IN  /\ init' = [init EXCEPT ![s] = r.val]
           /\ IF r.ok
              THEN /\ kpc' = [kpc EXCEPT ![t] = "get_wrapped"]
                   /\ UNCHANGED <<kret, nones>>
              ELSE /\ kpc' = [kpc EXCEPT ![t] = "idle"]
                   /\ kret' = [kret EXCEPT ![t] = "None"]
                   /\ nones' = [nones EXCEPT ![s] = @ + 1]
    /\ UNCHANGED <<value, kslot, handles, calls, somes>>
    /\ UNCHANGED <<pvars, dvars>>

\* A mutant of InitOnceCas: the exchange installs KOBJ_INITIALIZED at once.
InitOnceCasPublishes(t) ==
    /\ kpc[t] = "cas"
    /\ LET s == kslot[t]
           r == compare_exchange(init[s], KOBJ_UNINITIALIZED, KOBJ_INITIALIZED)
       IN  /\ init' = [init EXCEPT ![s] = r.val]
           /\ IF r.ok
              THEN /\ kpc' = [kpc EXCEPT ![t] = "get_wrapped"]
                   /\ UNCHANGED <<kret, nones>>
              ELSE /\ kpc' = [kpc EXCEPT ![t] = "idle"]
                   /\ kret' = [kret EXCEPT ![t] = "None"]
                   /\ nones' = [nones EXCEPT ![s] = @ + 1]
    /\ UNCHANGED <<value, kslot, handles, calls, somes>>
    /\ UNCHANGED <<pvars, dvars>>

\* A mutant of InitOnceCas: compare_exchange_weak, which may fail although
\* the word holds the expected value.
InitOnceCasWeak(t) ==
    /\ kpc[t] = "cas"
    /\ \E spurious \in BOOLEAN :
         LET s == kslot[t]
             r == IF spurious
                  THEN [ok |-> FALSE, val |-> init[s]]
                  ELSE compare_exchange(init[s], KOBJ_UNINITIALIZED, KOBJ_INITING)
         IN  /\ init' = [init EXCEPT ![s] = r.val]
             /\ IF r.ok
                THEN /\ kpc' = [kpc EXCEPT ![t] = "get_wrapped"]
                     /\ UNCHANGED <<kret, nones>>
                ELSE /\ kpc' = [kpc EXCEPT ![t] = "idle"]
                     /\ kret' = [kret EXCEPT ![t] = "None"]
                     /\ nones' = [nones EXCEPT ![s] = @ + 1]
    /\ UNCHANGED <<value, kslot, handles, calls, somes>>
    /\ UNCHANGED <<pvars, dvars>>

\* The compare_exchange of init_once and its Err branch, `return None`.
InitOnceCas(t) ==
    /\ kpc[t] = "cas"
    /\ LET s == kslot[t]
           r == compare_exchange(init[s], KOBJ_UNINITIALIZED, KOBJ_INITING)
       IN  /\ init' = [init EXCEPT ![s] = r.val]
           /\ IF r.ok
              THEN /\ kpc' = [kpc EXCEPT ![t] = "get_wrapped"]
                   /\ UNCHANGED <<kret, nones>>
              ELSE /\ kpc' = [kpc EXCEPT ![t] = "idle"]
                   /\ kret' = [kret EXCEPT ![t] = "None"]
                   /\ nones' = [nones EXCEPT ![s] = @ + 1]
    /\ UNCHANGED <<value, kslot, handles, calls, somes>>
    /\ UNCHANGED <<pvars, dvars>>

\* Wrapped::get_wrapped starts the kernel's setup of the cell: from here the
\* cell is neither zero-filled nor a live object.
GetWrappedBegin(t) ==
    /\ kpc[t] = "get_wrapped"
    /\ value' = [value EXCEPT ![kslot[t]] = "partial"]
    /\ kpc' = [kpc EXCEPT ![t] = "wrapping"]
    /\ UNCHANGED <<init, kslot, kret, handles, calls, somes, nones>>
    /\ UNCHANGED <<pvars, dvars>>

\* Wrapped::get_wrapped finishes: the cell is a live kernel object and the
\* wrapper is in the local `result`.
GetWrappedEnd(t) ==
    /\ kpc[t] = "wrapping"
    /\ value' = [value EXCEPT ![kslot[t]] = "constructed"]
    /\ kpc' = [kpc EXCEPT ![t] = "store"]
    /\ UNCHANGED <<init, kslot, kret, handles, calls, somes, nones>>
    /\ UNCHANGED <<pvars, dvars>>

\* self.init.store(KOBJ_INITIALIZED, Release).
InitOnceStore(t) ==
    /\ kpc[t] = "store"
    /\ init' = [init EXCEPT ![kslot[t]] = KOBJ_INITIALIZED]
    /\ kpc' = [kpc EXCEPT ![t] = "ret"]
    /\ UNCHANGED <<value, kslot, kret, handles, calls, somes, nones>>
    /\ UNCHANGED <<pvars, dvars>>

\* Some(result): the caller now owns the handle.
InitOnceReturn(t) ==
    /\ kpc[t] = "ret"
    /\ kret' = [kret EXCEPT ![t] = "Some"]
    /\ handles' = [handles EXCEPT ![t] = @ \cup {kslot[t]}]
    /\ somes' = [somes EXCEPT ![kslot[t]] = @ + 1]
    /\ kpc' = [kpc EXCEPT ![t] = "idle"]
    /\ UNCHANGED <<init, value, kslot, calls, nones>>
    /\ UNCHANGED <<pvars, dvars>>

(***************************************************************************)
(* philosophers: ForkSync and phil_thread                                  *)
(***************************************************************************)

\* Every philosopher thread has been spawned and has not run yet; every fork's
\* semaphore is available.
InitPhil ==
    /\ pc = [n \in Phils |-> "start"]
    /\ forks = [n \in Phils |-> <<0, 0>>]
    /\ sem = [r \in ForkIdx |-> SEM_LIMIT]
    /\ held = [n \in Phils |-> {}]

\* A mutant of Forks: the last philosopher's pair is not reversed.
ForksNotReversed(n) ==
    <<n, (n + 1) % NUM_PHIL>>

\* A mutant of Forks: the special case of the last philosopher is missing.
ForksNoSpecialCase(n) ==
    <<n, n + 1>>

\* The pair phil_thread computes: `if n == NUM_PHIL - 1 { (0, n) } else { (n, n+1) }`.
Forks(n) ==
    IF n = NUM_PHIL - 1 THEN <<0, n>> ELSE <<n, n + 1>>

\* The assignment without the reversal: every philosopher, the last included,
\* takes fork n first and fork (n+1) mod NUM_PHIL second.
NaiveForks(n) ==
    <<n, (n + 1) % NUM_PHIL>>

\* ForkSync::take(index) for philosopher n: waits until the fork's semaphore is
\* available, then takes it.
take(n, index) ==
    /\ sem[index] > 0
    /\ sem' = [sem EXCEPT ![index] = @ - 1]
    /\ held' = [held EXCEPT ![n] = @ \cup {index}]

\* ForkSync::release(index) for philosopher n: gives the fork's semaphore (the
\* count never exceeds its limit); never waits.
release(n, index) ==
    /\ sem' = [sem EXCEPT ![index] = IF @ < SEM_LIMIT THEN @ + 1 ELSE @]
    /\ held' = [held EXCEPT ![n] = @ \ {index}]

\* phil_thread up to the loop: the pair of forks is determined.
PhilStart(n) ==
    /\ pc[n] = "start"
    /\ forks' = [forks EXCEPT ![n] = Forks(n)]
    /\ pc' = [pc EXCEPT ![n] = "hungry"]
    /\ UNCHANGED <<sem, held>>
    /\ UNCHANGED <<kvars, dvars>>

\* The same with the naive assignment.
PhilStartNaive(n) ==
    /\ pc[n] = "start"
    /\ forks' = [forks EXCEPT ![n] = NaiveForks(n)]
    /\ pc' = [pc EXCEPT ![n] = "hungry"]
    /\ UNCHANGED <<sem, held>>
    /\ UNCHANGED <<kvars, dvars>>

\* A mutant of TakeFirst: the philosopher goes on without taking the fork.
TakeFirstSkipped(n) ==
    /\ pc[n] = "hungry"
    /\ pc' = [pc EXCEPT ![n] = "holding_first"]
    /\ UNCHANGED <<forks, sem, held>>
    /\ UNCHANGED <<kvars, dvars>>

\* syncer.take(forks.0)
TakeFirst(n) ==
    /\ pc[n] = "hungry"
    /\ take(n, forks[n][1])
    /\ pc' = [pc EXCEPT ![n] = "holding_first"]
    /\ UNCHANGED forks
    /\ UNCHANGED <<kvars, dvars>>

\* A mutant of TakeSecond: the second fork is taken to be the one after the
\* first, whatever the pair says.
TakeSecondNextOfFirst(n) ==
    /\ pc[n] = "holding_first"
    /\ take(n, (forks[n][1] + 1) % NUM_PHIL)
    /\ pc' = [pc EXCEPT ![n] = "holding_both"]
    /\ UNCHANGED forks
    /\ UNCHANGED <<kvars, dvars>>

\* syncer.take(forks.1); the philosopher then eats (sleeps).
TakeSecond(n) ==
    /\ pc[n] = "holding_first"
    /\ take(n, forks[n][2])
    /\ pc' = [pc EXCEPT ![n] = "holding_both"]
    /\ UNCHANGED forks
    /\ UNCHANGED <<kvars, dvars>>

\* A mutant of ReleaseSecond: the index released is off by one.
ReleaseSecondOffByOne(n) ==
    /\ pc[n] = "holding_both"
    /\ release(n, (forks[n][2] + 1) % NUM_PHIL)
    /\ pc' = [pc EXCEPT ![n] = "releasing"]
    /\ UNCHANGED forks
    /\ UNCHANGED <<kvars, dvars>>

\* A mutant of ReleaseSecond: the first fork is released before the second.
ReleaseSecondSwapped(n) ==
    /\ pc[n] = "holding_both"
    /\ release(n, forks[n][1])
    /\ pc' = [pc EXCEPT ![n] = "releasing"]
    /\ UNCHANGED forks
    /\ UNCHANGED <<kvars, dvars>>

\* The eating sleep ends; syncer.release(forks.1).
ReleaseSecond(n) ==
    /\ pc[n] = "holding_both"
    /\ release(n, forks[n][2])
    /\ pc' = [pc EXCEPT ![n] = "releasing"]
    /\ UNCHANGED forks
    /\ UNCHANGED <<kvars, dvars>>

\* A mutant of ReleaseFirst: the thinking sleep is missing.
ReleaseFirstNoThink(n) ==
    /\ pc[n] = "releasing"
    /\ release(n, forks[n][1])
    /\ pc' = [pc EXCEPT ![n] = "hungry"]
    /\ UNCHANGED forks
    /\ UNCHANGED <<kvars, dvars>>

\* A mutant of ReleaseFirst: the release of the first fork is missing.
ReleaseFirstForgotten(n) ==
    /\ pc[n] = "releasing"
    /\ pc' = [pc EXCEPT ![n] = "thinking"]
    /\ UNCHANGED <<forks, sem, held>>
    /\ UNCHANGED <<kvars, dvars>>

\* syncer.release(forks.0); the philosopher then thinks (sleeps).
ReleaseFirst(n) ==
    /\ pc[n] = "releasing"
    /\ release(n, forks[n][1])
    /\ pc' = [pc EXCEPT ![n] = "thinking"]
    /\ UNCHANGED forks
    /\ UNCHANGED <<kvars, dvars>>

\* The thinking sleep ends; the loop starts over: the philosopher is hungry.
ThinkDone(n) ==
    /\ pc[n] = "thinking"
    /\ pc' = [pc EXCEPT ![n] = "hungry"]
    /\ UNCHANGED <<forks, sem, held>>
    /\ UNCHANGED <<kvars, dvars>>

\* One iteration step of the loop of phil_thread.
PhilLoop(n) ==
    \/ TakeFirst(n)
    \/ TakeSecond(n)
    \/ ReleaseSecond(n)
    \/ ReleaseFirst(n)
    \/ ThinkDone(n)

\* A philosopher waits inside take: the fork it asks for is not available.
Blocked(n) ==
    \/ pc[n] = "hungry" /\ sem[forks[n][1]] = 0
    \/ pc[n] = "holding_first" /\ sem[forks[n][2]] = 0

(***************************************************************************)
(* philosophers: get_random_delay                                          *)
(***************************************************************************)

\* usize::MAX
USIZE_MAX == 2^USIZE_BITS - 1

\* The uptime_get() values tried: around every multiple of 100 up to
\* MaxHundreds*100, and around the point where the value no longer fits usize.
Uptimes ==
    {h * 100 + r : h \in 0..MaxHundreds, r \in {0, 99}}
        \cup {USIZE_MAX - 1, USIZE_MAX, USIZE_MAX + 1, USIZE_MAX + 3101, 2 * USIZE_MAX + 1}

\* The periods tried: the smallest, the one phil_thread passes, the two around
\* usize::MAX / 32, and two large ones.
Periods ==
    {1, PHIL_PERIOD, USIZE_MAX \div 32, USIZE_MAX \div 32 + 1,
     (USIZE_MAX + 1) \div 2, USIZE_MAX}

\* a * b on usize: the wrapped product and whether it overflowed.
mul_usize(a, b) ==
    [val |-> (a * b) % (USIZE_MAX + 1), overflow |-> a * b > USIZE_MAX]

\* get_random_delay(id, period):
\*   tick  = (uptime_get() & (usize::MAX as i64)) as usize   (the low usize bits)
\*   delay = (tick / 100 * (id + 1)) & 0x1f                  (x & 0x1f is x mod 32)
\*   Duration::millis_at_least(((delay + 1) * period) as Tick)
\* `ms` is the number of milliseconds handed to millis_at_least.
get_random_delay(id, period) ==
    LET tick == uptime % (USIZE_MAX + 1)
        m1 == mul_usize(tick \div 100, id + 1)
        delay == m1.val % 32
        m2 == mul_usize(delay + 1, period)
    IN  [delay |-> delay, ms |-> m2.val,
         overflow1 |-> m1.overflow, overflow2 |-> m2.overflow]

\* No call of get_random_delay is in progress.
InitDelayIdle ==
    /\ overflow_checks = FALSE
    /\ uptime = 0
    /\ dpc = "idle"
    /\ did = 0
    /\ dperiod = PHIL_PERIOD
    /\ dret = [delay |-> 0, ms |-> 0, overflow1 |-> FALSE, overflow2 |-> FALSE]

\* Before a call of get_random_delay: any uptime, either build profile.
InitDelayInputs ==
    /\ overflow_checks \in BOOLEAN
    /\ uptime \in Uptimes
    /\ dpc = "idle"
    /\ did = 0
    /\ dperiod = PHIL_PERIOD
    /\ dret = [delay |-> 0, ms |-> 0, overflow1 |-> FALSE, overflow2 |-> FALSE]

\* A call get_random_delay(id, period): it returns, or the arithmetic panics in
\* a build with overflow checks.
CallGetRandomDelay(id, period) ==
    /\ dpc = "idle"
    /\ did' = id
    /\ dperiod' = period
    /\ dret' = get_random_delay(id, period)
    /\ dpc' = IF overflow_checks /\ (dret'.overflow1 \/ dret'.overflow2)
              THEN "panicked" ELSE "returned"
    /\ UNCHANGED <<overflow_checks, uptime>>
    /\ UNCHANGED <<kvars, pvars>>

(***************************************************************************)
(* Specifications                                                          *)
(***************************************************************************)

\* The philosophers as rust_main starts them.
Init ==
    /\ InitKobj
    /\ InitPhil
    /\ InitDelayIdle

Next ==
    \E n \in Phils : PhilStart(n) \/ PhilLoop(n)

Spec == Init /\ [][Next]_vars

\* The philosophers under weak fairness of each philosopher's steps: a thread
\* that can run is eventually scheduled; the semaphores favour no waiter.
FairSpec ==
    /\ Spec
    /\ \A n \in Phils : WF_vars(PhilStart(n)) /\ WF_vars(PhilLoop(n))

\* The philosophers with the naive assignment of forks.
NextNaive ==
    \E n \in Phils : PhilStartNaive(n) \/ PhilLoop(n)

SpecNaive == Init /\ [][NextNaive]_vars

\* Callers of init_once on the slots, interleaved arbitrarily.
NextKobj ==
    \E t \in Callers :
        \/ \E s \in Slots : InitOnceCall(t, s)
        \/ InitOnceCas(t)
        \/ GetWrappedBegin(t)
        \/ GetWrappedEnd(t)
        \/ InitOnceStore(t)
        \/ InitOnceReturn(t)

SpecKobj == Init /\ [][NextKobj]_vars

\* Calls of get_random_delay.
InitDelay ==
    /\ InitKobj
    /\ InitPhil
    /\ InitDelayInputs

NextDelay ==
    \E id \in Phils, period \in Periods : CallGetRandomDelay(id, period)

SpecDelay == InitDelay /\ [][NextDelay]_vars

(***************************************************************************)
(* philosophers: rust_main, the start-up                                   *)
(***************************************************************************)

\* The thread that runs rust_main.
MainThread == 1

\* The statics of kobj_define!: PHIL_STACK_k is slot 2k-1 and PHIL_THREAD_k is
\* slot 2k, for k in 1..NUM_PHIL.
MainSlots == 1..(2 * NUM_PHIL)

StackSlot(k) == 2 * k - 1

ThreadSlot(k) == 2 * k

\* A mutant of MainCallSlot: the second element of the array names
\* PHIL_STACK_1 again.
MainCallSlotCopyPaste(i) ==
    IF i = 3 THEN StackSlot(1) ELSE i

\* The slot of the i-th init_once call of rust_main, in evaluation order:
\* PHIL_THREAD_k.init_once(PHIL_STACK_k.init_once(()).unwrap()).unwrap()
\* calls PHIL_STACK_k first and PHIL_THREAD_k second, for k = 1, 2, ...
MainCallSlot(i) ==
    IF i % 2 = 1 THEN StackSlot((i + 1) \div 2) ELSE ThreadSlot(i \div 2)

\* The number of init_once calls started on the slots 1..k.
RECURSIVE SumCalls(_)
SumCalls(k) ==
    IF k = 0 THEN 0 ELSE calls[k] + SumCalls(k - 1)

\* The number of init_once calls rust_main has started.
CallsMade == SumCalls(2 * NUM_PHIL)

\* The image as loaded: the twelve statics are zero-filled (Uninitialized), no
\* philosopher thread exists yet, rust_main is about to build `threads`.
InitMain ==
    /\ init = [s \in MainSlots |-> KOBJ_UNINITIALIZED]
    /\ value = [s \in MainSlots |-> "zeroed"]
    /\ kpc = [t \in Callers |-> "idle"]
    /\ kslot = [t \in Callers |-> 1]
    /\ kret = [t \in Callers |-> "-"]
    /\ handles = [t \in Callers |-> {}]
    /\ calls = [s \in MainSlots |-> 0]
    /\ somes = [s \in MainSlots |-> 0]
    /\ nones = [s \in MainSlots |-> 0]
    /\ pc = [n \in Phils |-> "unspawned"]
    /\ forks = [n \in Phils |-> <<0, 0>>]
    /\ sem = [r \in ForkIdx |-> SEM_LIMIT]
    /\ held = [n \in Phils |-> {}]
    /\ InitDelayIdle

\* rust_main makes its next init_once call. The unwrap of the previous call
\* has not panicked, and a thread slot gets the handle of the stack the call
\* before it returned.
MainInitOnce ==
    /\ kpc[MainThread] = "idle"
    /\ kret[MainThread] # "None"
    /\ CallsMade < 2 * NUM_PHIL
    /\ LET i == CallsMade + 1
       IN  /\ i % 2 = 0 => MainCallSlot(i - 1) \in handles[MainThread]
           /\ InitOnceCall(MainThread, MainCallSlot(i))

\* threads[i].spawn(move || phil_thread(i, syncer)), for i = 0, 1, ... in
\* order, once the array `threads` is complete.
MainSpawn(i) ==
    /\ kpc[MainThread] = "idle"
    /\ kret[MainThread] # "None"
    /\ CallsMade = 2 * NUM_PHIL
    /\ pc[i] = "unspawned"
    /\ \A j \in Phils : j < i => pc[j] # "unspawned"
    /\ ThreadSlot(i + 1) \in handles[MainThread]
    /\ pc' = [pc EXCEPT ![i] = "start"]
    /\ UNCHANGED <<forks, sem, held>>
    /\ UNCHANGED <<kvars, dvars>>

\* rust_main and the philosophers it spawns. After the last spawn rust_main
\* only sleeps.
NextMain ==
    \/ MainInitOnce
    \/ InitOnceCas(MainThread)
    \/ GetWrappedBegin(MainThread)
    \/ GetWrappedEnd(MainThread)
    \/ InitOnceStore(MainThread)
    \/ InitOnceReturn(MainThread)
    \/ \E i \in Phils : MainSpawn(i)
    \/ \E n \in Phils : PhilStart(n) \/ PhilLoop(n)

SpecMain == InitMain /\ [][NextMain]_vars

(***************************************************************************)
(* Properties of init_once (checked under SpecKobj)                        *)
(***************************************************************************)

\* Some call of init_once on slot s has not returned yet.
InFlight(s) ==
    \E t \in Callers : kpc[t] # "idle" /\ kslot[t] = s

\* C1: exactly-once initialization. On every slot at most one call of init_once
\* ever returns Some, and once the k >= 1 calls made on the slot have all
\* returned, exactly one returned Some and the other k-1 returned None.
C1_ExactlyOnce ==
    \A s \in Slots :
        /\ somes[s] <= 1
        /\ (calls[s] >= 1 /\ ~InFlight(s)) =>
               (somes[s] = 1 /\ nones[s] = calls[s] - 1)

\* Three calls on one slot, made by three different callers, have all returned.
C1_Witness ==
    \E s \in Slots :
        /\ ~InFlight(s)
        /\ calls[s] >= 3
        /\ Cardinality({t \in Callers : kslot[t] = s /\ kret[t] # "-"}) >= 3

\* C6: double initialization fails fast. A caller about to do the exchange is
\* never made to wait; a call whose slot is already Initializing or Initialized
\* returns None in that one step, without running the construction and leaving
\* the state word and the cell of every slot as they were.
C6_FailFast ==
    /\ [](\A t \in Callers : kpc[t] = "cas" => ENABLED InitOnceCas(t))
    /\ [][\A t \in Callers :
             (/\ kpc[t] = "cas"
              /\ init[kslot[t]] # KOBJ_UNINITIALIZED
              /\ <<kpc[t], kret[t]>>' # <<kpc[t], kret[t]>>)
             => (/\ kpc'[t] = "idle"
                 /\ kret'[t] = "None"
                 /\ nones'[kslot[t]] = nones[kslot[t]] + 1
                 /\ init' = init
                 /\ value' = value)]_vars

\* A call has returned None while the winner is still constructing the object.
C6_Witness ==
    \E t \in Callers :
        /\ kpc[t] = "idle"
        /\ kret[t] = "None"
        /\ init[kslot[t]] = KOBJ_INITING
        /\ value[kslot[t]] = "partial"

\* C7: the state word of every slot is one of 0, 1, 2 and each step leaves it
\* unchanged or raises it by exactly one: it never decreases, never goes from
\* Uninitialized to Initialized at once, and never leaves Initialized.
C7_Monotone ==
    [][\A s \in Slots :
          /\ init[s] \in {KOBJ_UNINITIALIZED, KOBJ_INITING, KOBJ_INITIALIZED}
          /\ init'[s] \in {KOBJ_UNINITIALIZED, KOBJ_INITING, KOBJ_INITIALIZED}
          /\ (init'[s] = init[s] \/ init'[s] = init[s] + 1)]_vars

\* A slot is Initialized and a later call on it is about to do its exchange.
C7_Witness ==
    \E t \in Callers :
        /\ kpc[t] = "cas"
        /\ init[kslot[t]] = KOBJ_INITIALIZED
        /\ somes[kslot[t]] = 1

\* C8: no access before initialization. A slot whose state word is Initialized
\* has a fully constructed cell, and a caller holds a handle to a slot only if
\* the slot's construction is complete and its state word is Initialized.
C8_Visibility ==
    \A s \in Slots :
        /\ init[s] = KOBJ_INITIALIZED => value[s] = "constructed"
        /\ \A t \in Callers :
               s \in handles[t] =>
                   (value[s] = "constructed" /\ init[s] = KOBJ_INITIALIZED)

\* The winner holds the handle and another caller is inside init_once on the
\* same, Initialized slot.
C8_Witness ==
    \E t, u \in Callers :
        /\ t # u
        /\ kslot[t] \in handles[t]
        /\ kslot[u] = kslot[t]
        /\ kpc[u] = "cas"
        /\ init[kslot[t]] = KOBJ_INITIALIZED

(***************************************************************************)
(* Properties of the philosophers (checked under Spec, FairSpec, SpecNaive) *)
(***************************************************************************)

\* The philosophers that hold fork r.
Holders(r) ==
    {n \in Phils : r \in held[n]}

\* C2: deadlock-freedom. With the last philosopher's pair reversed, in every
\* reachable state some philosopher is not blocked in take and some
\* philosopher has an enabled step.
C2_DeadlockFree ==
    /\ \E n \in Phils : ~Blocked(n)
    /\ \E n \in Phils : ENABLED (PhilStart(n) \/ PhilLoop(n))

\* All philosophers but one are blocked in take.
C2_Witness ==
    Cardinality({n \in Phils : Blocked(n)}) = NUM_PHIL - 1

\* C3: mutual exclusion. At most one philosopher holds a fork at any time, and
\* a take that returns returns a fork nobody else holds, which the caller
\* holds from then on.
C3_MutualExclusion ==
    /\ [](\A r \in ForkIdx : Cardinality(Holders(r)) <= 1)
    /\ [][\A n \in Phils :
             /\ (pc[n] = "hungry" /\ pc'[n] = "holding_first") =>
                    (/\ Holders(forks[n][1]) = {}
                     /\ Holders(forks[n][1])' = {n})
             /\ (pc[n] = "holding_first" /\ pc'[n] = "holding_both") =>
                    (/\ Holders(forks[n][2]) = {}
                     /\ Holders(forks[n][2])' = {n})]_vars

\* A philosopher waits in take for a fork its neighbour holds while eating.
C3_Witness ==
    \E n, m \in Phils :
        /\ n # m
        /\ Blocked(n)
        /\ pc[n] = "hungry"
        /\ pc[m] = "holding_both"
        /\ forks[n][1] \in held[m]

\* C4 as stated: under weak fairness of each philosopher's steps alone, every
\* philosopher that becomes hungry eventually holds both forks.
C4_EveryoneEats ==
    \A n \in Phils : (pc[n] = "hungry") ~> (pc[n] = "holding_both")

\* C4, amended: under weak fairness of each philosopher's steps alone the
\* philosophers as a whole keep eating: whenever some philosopher is hungry,
\* some philosopher eventually holds both forks, and this happens infinitely
\* often. (A particular hungry philosopher may wait forever.)
C4_SomeoneEats ==
    /\ (\E n \in Phils : pc[n] = "hungry") ~> (\E n \in Phils : pc[n] = "holding_both")
    /\ []<>(\E n \in Phils : pc[n] = "holding_both")

\* A hungry philosopher waits for its first fork while the neighbour it shares
\* the fork with eats.
C4_Witness ==
    /\ pc[0] = "hungry"
    /\ pc[NUM_PHIL - 1] = "holding_both"
    /\ Blocked(0)

\* Every philosopher holds its first fork and has not yet taken the second.
AllHoldingFirst ==
    \A n \in Phils : pc[n] = "holding_first"

\* C5: the naive assignment deadlocks. Whenever every philosopher holds its
\* first fork, each one is blocked in take on its second fork, which its
\* neighbour holds, no step of any philosopher is possible, and so the state
\* lasts forever. (That such a state is reachable is C5_Witness.)
C5_NaiveDeadlock ==
    /\ [](AllHoldingFirst =>
             /\ \A n \in Phils :
                    /\ Blocked(n)
                    /\ held[n] = {n}
                    /\ Holders((n + 1) % NUM_PHIL) = {(n + 1) % NUM_PHIL}
             /\ ~ENABLED NextNaive)
    /\ [][AllHoldingFirst => AllHoldingFirst']_vars

\* The circular wait: every philosopher holds fork n and waits for fork n+1.
C5_Witness ==
    /\ AllHoldingFirst
    /\ \A n \in Phils : forks[n] = <<n, (n + 1) % NUM_PHIL>> /\ held[n] = {n}

\* The assignment of the specification: (i, (i+1) mod N) for i < N-1, and the
\* reversed pair (0, N-1) for the last.
RefForks(i) ==
    IF i < NUM_PHIL - 1 THEN <<i, (i + 1) % NUM_PHIL>> ELSE <<0, NUM_PHIL - 1>>

\* C10: the pair phil_thread computes for philosopher n is (n, (n+1) mod N) =
\* (n, n+1) for n < N-1 and (0, N-1) for n = N-1.
C10_Assignment ==
    \A n \in Phils :
        pc[n] # "start" =>
            /\ forks[n] = RefForks(n)
            /\ n < NUM_PHIL - 1 => forks[n] = <<n, n + 1>>
            /\ n = NUM_PHIL - 1 => forks[n] = <<0, NUM_PHIL - 1>>

\* Every philosopher has computed its pair.
C10_Witness ==
    \A n \in Phils : pc[n] # "start"

(***************************************************************************)
(* Properties of get_random_delay (checked under SpecDelay)                *)
(***************************************************************************)

\* The call returned (d+1)*period milliseconds with d in 0..31: a positive
\* multiple of the period in [period, 32*period], and tick/100*(id+1) did not
\* overflow.
DelayInBounds ==
    /\ dpc = "returned"
    /\ dret.delay \in 0..31
    /\ dret.ms = (dret.delay + 1) * dperiod
    /\ dret.ms >= dperiod
    /\ dret.ms <= 32 * dperiod
    /\ dret.ms # 0
    /\ ~dret.overflow1

\* C9: delay boundedness. For every id in 0..5, every period > 0 and every
\* uptime, get_random_delay(id, period) yields (d+1)*period with d in 0..31,
\* never zero, and tick/100*(id+1) does not overflow.
C9_DelayBounded ==
    dpc # "idle" => DelayInBounds

\* C9 for the periods up to usize::MAX / 32, the period 25 of phil_thread among
\* them: there the bounds hold in either build profile.
C9_DelayBoundedSmallPeriod ==
    (dpc # "idle" /\ dperiod <= USIZE_MAX \div 32) => DelayInBounds

\* The largest delay at the largest period that does not overflow.
C9_SmallPeriodWitness ==
    /\ dpc = "returned"
    /\ dret.delay = 31
    /\ dperiod = USIZE_MAX \div 32
    /\ dret.ms = 32 * dperiod

(***************************************************************************)
(* Further properties of the philosophers (checked under Spec, FairSpec)   *)
(***************************************************************************)

\* The state of the policy's state machine a philosopher is in. After
\* release(forks.1) and before release(forks.0) the philosopher is still in the
\* transition that leaves Holding-Both.
PhilState(n) ==
    CASE pc[n] = "start" -> "NotStarted"
      [] pc[n] = "hungry" -> "Hungry"
      [] pc[n] = "holding_first" -> "HoldingFirst"
      [] pc[n] = "holding_both" -> "HoldingBoth"
      [] pc[n] = "releasing" -> "HoldingBoth"
      [] pc[n] = "thinking" -> "Thinking"

\* The transitions of the cycle Thinking -> Hungry -> Holding-First ->
\* Holding-Both -> Thinking.
CycleSteps ==
    {<<"Thinking", "Hungry">>, <<"Hungry", "HoldingFirst">>,
     <<"HoldingFirst", "HoldingBoth">>, <<"HoldingBoth", "Thinking">>}

\* A philosopher is never at an end: it waits inside take, or it has a step.
NoTerminalState ==
    \A n \in Phils : Blocked(n) \/ ENABLED (PhilStart(n) \/ PhilLoop(n))

\* C11 as stated: every philosopher starts in Thinking, changes state only
\* along the cycle Thinking -> Hungry -> Holding-First -> Holding-Both ->
\* Thinking, and has no terminal state.
C11_CycleFromThinking ==
    /\ []NoTerminalState
    /\ [][\A n \in Phils :
             PhilState(n)' # PhilState(n) =>
                 \/ PhilState(n) = "NotStarted" /\ PhilState(n)' = "Thinking"
                 \/ <<PhilState(n), PhilState(n)'>> \in CycleSteps]_vars

\* C11, amended: every philosopher starts in Hungry (the loop of phil_thread
\* begins with the takes; the first sleep comes after the first meal), changes
\* state only along the cycle Hungry -> Holding-First -> Holding-Both ->
\* Thinking -> Hungry, and has no terminal state.
C11_CycleFromHungry ==
    /\ []NoTerminalState
    /\ [][\A n \in Phils :
             PhilState(n)' # PhilState(n) =>
                 \/ PhilState(n) = "NotStarted" /\ PhilState(n)' = "Hungry"
                 \/ <<PhilState(n), PhilState(n)'>> \in CycleSteps]_vars

\* A philosopher has been round the cycle and thinks, while another one is
\* hungry with its first fork free.
C11_Witness ==
    \E n, m \in Phils :
        /\ n # m
        /\ pc[n] = "thinking"
        /\ pc[m] = "hungry"
        /\ sem[forks[m][1]] = SEM_LIMIT

\* C12: acquire/release ordering. The second fork is taken only while the
\* first is held, the first fork is released only after the second has been
\* released, and so a philosopher that holds its second fork holds its first.
C12_Ordering ==
    /\ [](\A n \in Phils :
             (pc[n] # "start" /\ forks[n][2] \in held[n]) => forks[n][1] \in held[n])
    /\ [][\A n \in Phils :
             pc[n] # "start" =>
                 /\ (forks[n][2] \notin held[n] /\ forks[n][2] \in held'[n]) =>
                        forks[n][1] \in held[n]
                 /\ (forks[n][1] \in held[n] /\ forks[n][1] \notin held'[n]) =>
                        forks[n][2] \notin held[n]]_vars

\* A philosopher has released its second fork and still holds the first.
C12_Witness ==
    \E n \in Phils : pc[n] = "releasing" /\ held[n] = {forks[n][1]}

\* C13: release only by the holder. Each release in phil_thread is of a fork
\* the releasing philosopher holds, alone, and whose semaphore is taken; a
\* fork's semaphore is available exactly when nobody holds the fork.
C13_ReleaseByHolder ==
    /\ [](\A r \in ForkIdx : sem[r] + Cardinality(Holders(r)) = SEM_LIMIT)
    /\ [][\A n \in Phils :
             /\ (pc[n] = "holding_both" /\ pc'[n] # pc[n]) =>
                    (/\ Holders(forks[n][2]) = {n}
                     /\ sem[forks[n][2]] = 0
                     /\ sem'[forks[n][2]] = 1
                     /\ Holders(forks[n][2])' = {})
             /\ (pc[n] = "releasing" /\ pc'[n] # pc[n]) =>
                    (/\ Holders(forks[n][1]) = {n}
                     /\ sem[forks[n][1]] = 0
                     /\ sem'[forks[n][1]] = 1
                     /\ Holders(forks[n][1])' = {})]_vars

\* A philosopher has released both forks while a neighbour was waiting for one
\* of them.
C13_Witness ==
    \E n, m \in Phils :
        /\ n # m
        /\ pc[n] = "thinking"
        /\ pc[m] = "holding_first"
        /\ forks[m][2] \in {forks[n][1], forks[n][2]}
        /\ sem[forks[m][2]] = SEM_LIMIT

\* The two forks of a philosopher that has computed its pair.
Pair(n) ==
    {forks[n][1], forks[n][2]}

\* C15: bounded holding. A philosopher holds zero, one or two forks, all of
\* its own pair, and under weak fairness of the philosophers' steps one that
\* holds both forks eventually holds none (release never waits).
C15_BoundedHolding ==
    /\ [](\A n \in Phils :
             /\ Cardinality(held[n]) \in {0, 1, 2}
             /\ pc[n] = "start" => held[n] = {}
             /\ pc[n] # "start" => held[n] \subseteq Pair(n))
    /\ \A n \in Phils :
           (pc[n] = "holding_both" /\ held[n] = Pair(n)) ~> (held[n] = {})

\* Two philosophers hold both their forks while a third holds one.
C15_Witness ==
    \E n, m, k \in Phils :
        /\ Cardinality({n, m, k}) = 3
        /\ Cardinality(held[n]) = 2
        /\ Cardinality(held[m]) = 2
        /\ Cardinality(held[k]) = 1

\* C16: global resource ordering. Every philosopher's first fork has a lower
\* number than its second, and a philosopher blocked in take waits for a fork
\* numbered higher than every fork it holds.
C16_ResourceOrder ==
    \A n \in Phils :
        pc[n] # "start" =>
            /\ forks[n][1] < forks[n][2]
            /\ (pc[n] = "hungry" /\ Blocked(n)) => held[n] = {}
            /\ (pc[n] = "holding_first" /\ Blocked(n)) =>
                   \A r \in held[n] : r < forks[n][2]

\* The last philosopher holds fork 0 and is blocked on fork N-1.
C16_Witness ==
    /\ pc[NUM_PHIL - 1] = "holding_first"
    /\ Blocked(NUM_PHIL - 1)
    /\ held[NUM_PHIL - 1] = {0}

\* The philosophers that have computed their pair.
Started ==
    {n \in Phils : pc[n] # "start"}

\* C17: ring topology. The two indices of a philosopher's pair differ and lie
\* in 0..N-1 (they are the only indices passed to take and release), no fork
\* is in the pairs of more than two philosophers, and once all philosophers
\* have their pairs every fork is in the pairs of exactly two of them.
C17_Ring ==
    /\ \A n \in Started :
           /\ forks[n][1] # forks[n][2]
           /\ Pair(n) \subseteq ForkIdx
           /\ held[n] \subseteq ForkIdx
    /\ \A r \in ForkIdx : Cardinality({n \in Started : r \in Pair(n)}) <= 2
    /\ Started = Phils =>
           \A r \in ForkIdx : Cardinality({n \in Phils : r \in Pair(n)}) = 2

\* All philosophers have their pairs and both users of fork 0 have used it.
C17_Witness ==
    /\ Started = Phils
    /\ pc[0] = "thinking"
    /\ pc[NUM_PHIL - 1] = "holding_both"

\* Two philosophers are neighbours: their pairs share a fork.
Neighbours(n, m) ==
    n # m /\ Pair(n) \cap Pair(m) # {}

\* C18: no two neighbours eat at once. Two philosophers whose pairs share a
\* fork are never both in Holding-Both, and a philosopher in Holding-Both
\* holds both forks of its pair.
C18_NeighboursExclude ==
    /\ \A n \in Phils : pc[n] = "holding_both" => held[n] = Pair(n)
    /\ \A n, m \in Phils :
           (pc[n] = "holding_both" /\ pc[m] = "holding_both" /\ n # m) =>
               ~Neighbours(n, m)

\* Three philosophers, no two of them neighbours, eat at once.
C18_Witness ==
    Cardinality({n \in Phils : pc[n] = "holding_both"}) = 3

(***************************************************************************)
(* Further properties of init_once (checked under SpecKobj)                *)
(***************************************************************************)

\* The callers that are running get_wrapped on slot s.
Constructing(s) ==
    {t \in Callers : kslot[t] = s /\ kpc[t] \in {"get_wrapped", "wrapping"}}

\* C14: construction runs once per slot, inside the critical section. At most
\* one caller runs get_wrapped on a slot at a time, and only while the state
\* word is Initializing; a caller enters get_wrapped only by winning the
\* exchange from Uninitialized; get_wrapped starts only on a cell that is
\* still zero-filled, so it runs at most once; and the cell changes only by
\* the hand of that caller, from zeroed to partial to constructed.
C14_ConstructOnce ==
    /\ [](\A s \in Slots :
             /\ Cardinality(Constructing(s)) <= 1
             /\ Constructing(s) # {} => init[s] = KOBJ_INITING)
    /\ [][/\ \A t \in Callers :
                /\ (kpc[t] # "get_wrapped" /\ kpc'[t] = "get_wrapped") =>
                       (/\ kpc[t] = "cas"
                        /\ init[kslot[t]] = KOBJ_UNINITIALIZED
                        /\ init'[kslot[t]] = KOBJ_INITING)
                /\ (kpc[t] = "get_wrapped" /\ kpc'[t] # "get_wrapped") =>
                       value[kslot[t]] = "zeroed"
          /\ \A s \in Slots :
                value'[s] # value[s] =>
                    /\ init[s] = KOBJ_INITING /\ init'[s] = KOBJ_INITING
                    /\ \E t \in Constructing(s) : kpc'[t] # kpc[t]
                    /\ <<value[s], value'[s]>> \in
                           {<<"zeroed", "partial">>, <<"partial", "constructed">>}]_vars

\* The winner has finished get_wrapped and has not yet stored Initialized.
C14_Witness ==
    \E t \in Callers :
        /\ kpc[t] = "store"
        /\ value[kslot[t]] = "constructed"
        /\ init[kslot[t]] = KOBJ_INITING
        /\ nones[kslot[t]] >= 1

\* C19: a None never comes from an untouched slot. The exchange of a call
\* returns None exactly when the state word is Initializing or Initialized at
\* that moment; on an Uninitialized word the caller goes on to construct the
\* object; so a slot with a None result is never Uninitialized.
C19_NoneOnlyAfterWin ==
    /\ [](\A s \in Slots : nones[s] > 0 => init[s] # KOBJ_UNINITIALIZED)
    /\ [][\A t \in Callers :
             (kpc[t] = "cas" /\ <<kpc[t], kret[t]>>' # <<kpc[t], kret[t]>>) =>
                 IF init[kslot[t]] = KOBJ_UNINITIALIZED
                 THEN /\ kpc'[t] = "get_wrapped"
                      /\ kret'[t] = kret[t]
                      /\ nones' = nones
                 ELSE /\ kpc'[t] = "idle"
                      /\ kret'[t] = "None"]_vars

\* A call has returned None before the winner has touched the cell: None does
\* not mean the object is Initialized.
C19_Witness ==
    \E t, u \in Callers :
        /\ kret[t] = "None"
        /\ kpc[t] = "idle"
        /\ kslot[u] = kslot[t]
        /\ kpc[u] = "get_wrapped"
        /\ value[kslot[t]] = "zeroed"
        /\ init[kslot[t]] = KOBJ_INITING

(***************************************************************************)
(* Properties of rust_main (checked under SpecMain)                        *)
(***************************************************************************)

\* The philosophers rust_main has spawned.
Spawned ==
    {n \in Phils : pc[n] # "unspawned"}

\* C20: start-up never hits a failed initialization. Only the main thread
\* calls init_once; each of the twelve slots is passed to it at most once and
\* never returns None, so no unwrap panics; PHIL_THREAD_k is initialized only
\* once PHIL_STACK_k has returned its handle; a philosopher is spawned only
\* after all twelve calls have returned Some, in the order 0..5, and a
\* philosopher thread starts only by being spawned, once.
C20_Startup ==
    /\ [](/\ kret[MainThread] # "None"
          /\ \A t \in Callers \ {MainThread} : kpc[t] = "idle" /\ handles[t] = {}
          /\ \A s \in MainSlots : calls[s] <= 1 /\ nones[s] = 0 /\ somes[s] <= 1
          /\ \A k \in 1..NUM_PHIL :
                 calls[ThreadSlot(k)] >= 1 =>
                     (StackSlot(k) \in handles[MainThread]
                      /\ init[StackSlot(k)] = KOBJ_INITIALIZED)
          /\ Spawned # {} =>
                 \A s \in MainSlots :
                     /\ calls[s] = 1 /\ somes[s] = 1
                     /\ s \in handles[MainThread]
                     /\ init[s] = KOBJ_INITIALIZED
          /\ \A i, j \in Phils : (j < i /\ i \in Spawned) => j \in Spawned)
    /\ [][\A n \in Phils :
             /\ (pc[n] # "unspawned") => (pc'[n] # "unspawned")
             /\ (pc[n] # "start" /\ pc'[n] = "start") => pc[n] = "unspawned"]_vars

\* All six philosophers are spawned, all twelve calls returned Some, and the
\* philosophers are at work.
C20_Witness ==
    /\ Spawned = Phils
    /\ \A s \in MainSlots : somes[s] = 1
    /\ \E n \in Phils : pc[n] = "holding_both"

====
